---- MODULE Spec2Model ----
(***************************************************************************)
(* route53_dd: the per-zone reconciliation loop of src/src/main.rs.        *)
(*                                                                         *)
(* main builds one HostedZoneConfig, spawns the ctrl-c task that cancels   *)
(* the shutdown token, and awaits daemon_update_zone.  daemon_update_zone  *)
(* runs update_hosted_zone once (one-shot) or on every tick of a tokio     *)
(* interval until the token is cancelled (daemon).  update_hosted_zone is  *)
(* modelled one await (network call) per step, so that the ctrl-c task and *)
(* the clock interleave with a running cycle.                              *)
(***************************************************************************)
EXTENDS Integers, Sequences, FiniteSets

\* ------------------------------------------------------------------ bounds

\* The clock runs from the creation of the interval to MaxMinutes minutes.
MaxMinutes == 2

\* update_frequency_minutes ranges over 0..MaxFrequency.
MaxFrequency == 2

\* Duration::from_secs(60 * zone.update_frequency_minutes)
SecondsPerMinute == 60

\* ------------------------------------------------------------ the inputs

None == "none"

\* struct AwsCredentials: session_token and expires_after are Options.
AwsCredentials ==
    [access_key_id     : { "AKIA1", "AKIA2" },
     secret_access_key : { "secret1", "secret2" },
     session_token     : { None, "token1" },
     expires_after     : { None, "2030-01-01" }]

\* record_name, zone_name (strings, as sequences of characters), ttl_seconds,
\* region and the credentials main builds from the arguments (expires_after:
\* None).
ZoneProfiles ==
    { [record_name |-> <<"h", "o", "m", "e">>,
       zone_name   |-> <<"e", "x", ".", "c", "o", "m">>,
       ttl_seconds |-> 300,
       region      |-> "us-east-1",
       aws_credentials |->
           [access_key_id |-> "AKIA1", secret_access_key |-> "secret1",
            session_token |-> None, expires_after |-> None]],
      [record_name |-> <<"w">>,
       zone_name   |-> <<"a", ".", "b">>,
       ttl_seconds |-> 60,
       region      |-> "eu-west-1",
       aws_credentials |->
           [access_key_id |-> "AKIA2", secret_access_key |-> "secret2",
            session_token |-> "token1", expires_after |-> None]] }

\* struct HostedZoneConfig (region and aws_credentials do not reach the
\* control flow or the change batch).
HostedZoneConfig ==
    { [update_frequency_minutes |-> f,
       zone_name   |-> p.zone_name,
       record_name |-> p.record_name,
       ipv4        |-> v4,
       ipv6        |-> v6,
       region      |-> p.region,
       aws_credentials |-> p.aws_credentials,
       ttl_seconds |-> p.ttl_seconds] :
         f \in 0..MaxFrequency, p \in ZoneProfiles,
         v4 \in BOOLEAN, v6 \in BOOLEAN }

\* let blank = "********";  (a &str, which {:?} prints in quotes)
Blank == "\"********\""

\* Mutant of DebugAwsCredentials: the key id is printed.
DebugAwsCredentials_KeyIdShown(c) ==
    [access_key_id     |-> c.access_key_id,
     secret_access_key |-> Blank,
     session_token     |-> Blank,
     expires_after     |-> c.expires_after]

\* impl Debug for AwsCredentials: debug_struct("AwsCredentials") with the
\* fields it prints, in order.
DebugAwsCredentials(c) ==
    [access_key_id     |-> Blank,
     secret_access_key |-> Blank,
     session_token     |-> Blank,
     expires_after     |-> c.expires_after]

\* impl Display for AwsCredentials: the same debug_struct.
DisplayAwsCredentials(c) ==
    [access_key_id     |-> Blank,
     secret_access_key |-> Blank,
     session_token     |-> Blank,
     expires_after     |-> c.expires_after]

\* #[derive(Debug)] on HostedZoneConfig: every field with its own Debug.
DebugHostedZoneConfig(z) ==
    [update_frequency_minutes |-> z.update_frequency_minutes,
     zone_name       |-> z.zone_name,
     record_name     |-> z.record_name,
     ipv4            |-> z.ipv4,
     ipv6            |-> z.ipv6,
     region          |-> z.region,
     aws_credentials |-> DebugAwsCredentials(z.aws_credentials),
     ttl_seconds     |-> z.ttl_seconds]

\* A log line that formats the zone with {:?}: its text, the zone as printed,
\* and the error printed after it (or None).
LogLine(text, z, e) == [text |-> text, zone |-> DebugHostedZoneConfig(z), err |-> e]

\* What list_hosted_zones_by_name().send().await yields: an SdkError, or an
\* output whose hosted_zones is a list of zones (their ids).
ListResponses ==
    { [kind |-> "err", hosted_zones |-> <<>>],
      [kind |-> "ok",  hosted_zones |-> <<>>],
      [kind |-> "ok",  hosted_zones |-> <<"Z123">>],
      [kind |-> "ok",  hosted_zones |-> <<"Z456", "Z123">>] }

\* No response yet (the call has not been made in this cycle).
NoListResponse == [kind |-> "none", hosted_zones |-> <<>>]
NoHttpResponse == [kind |-> "none", body |-> None]

\* No address, no request, no interval: the values of the locals before they
\* are assigned.
NoAddr == [ok |-> FALSE, family |-> None, text |-> None]
NoRequest == [hosted_zone_id |-> None, changes |-> <<>>]
NoInterval == [deadline |-> 0, period |-> 0]
NoCycle ==
    [first |-> None, ipv4 |-> NoAddr, ipv6 |-> NoAddr, submitted |-> NoRequest,
     result |-> None]
NotCancelled == [pc |-> None, cycles |-> 0]
NoExit == <<>>

\* Response bodies of https://ifconfig.me/ip.
Bodies == { "203.0.113.7", "2001:db8::1", "2001:0db8:0:0:0:0:0:1", "<html>" }

\* What the GET yields: send() or text() fails, error_for_status() fails, or
\* a body.
HttpResponses ==
    { [kind |-> "send_err", body |-> None],
      [kind |-> "status_err", body |-> None] }
    \cup { [kind |-> "ok", body |-> b] : b \in Bodies }

\* What change_resource_record_sets().send().await yields.
ChangeResponses == { "ok", "err" }

\* str::parse::<IpAddr>(): an address of either family, or an AddrParseError.
\* An address is its family and its canonical text (what to_string() prints).
ParseIpAddr(body) ==
    CASE body = "203.0.113.7"           -> [ok |-> TRUE, family |-> "V4", text |-> "203.0.113.7"]
      [] body = "2001:db8::1"           -> [ok |-> TRUE, family |-> "V6", text |-> "2001:db8::1"]
      [] body = "2001:0db8:0:0:0:0:0:1" -> [ok |-> TRUE, family |-> "V6", text |-> "2001:db8::1"]
      [] OTHER                          -> NoAddr

\* IpAddr::to_string()
IpAddrToString(addr) == addr.text

\* Mutant of FormatName: the two names the wrong way round.
FormatName_Swapped(z) == z.zone_name \o <<".">> \o z.record_name

\* format!("{}.{}", zone.record_name, zone.zone_name)
FormatName(z) == z.record_name \o <<".">> \o z.zone_name

\* Change::builder().action(Upsert).resource_record_set(...)
UpsertChange(z, rrtype, addr) ==
    [action |-> "UPSERT",
     name   |-> FormatName(z),
     type   |-> rrtype,
     ttl    |-> z.ttl_seconds,
     value  |-> IpAddrToString(addr)]

\* hosted_zones.into_iter().find(|_| true)
FindFirst(hosted_zones) ==
    IF hosted_zones = <<>> THEN None ELSE Head(hosted_zones)

\* Duration::from_secs(60 * zone.update_frequency_minutes)
Period(z) == SecondsPerMinute * z.update_frequency_minutes

\* ------------------------------------------------------------- the state

VARIABLES
    zone,            \* the HostedZoneConfig main builds
    twin,            \* a HostedZoneConfig differing from zone in secrets at most
    daemon,          \* args.daemon
    pc,              \* where daemon_update_zone / update_hosted_zone stands
    shutdown_token,  \* TRUE once cancelled
    ctrl_c_task,     \* "waiting" | "done": the task spawned in main
    cancelled_at,    \* pc and cycles at the moment the token was cancelled
    now,             \* seconds since the interval was created
    interval,        \* [deadline, period] of the tokio interval, or None
    hosted_zone,     \* update_hosted_zone's local: the zone id found
    record_changes,  \* update_hosted_zone's local: Vec<Change>
    ipv4,            \* update_hosted_zone's local: the parsed IPv4 lookup
    ipv6,            \* update_hosted_zone's local: the parsed IPv6 lookup
    list_resp,       \* this cycle's response to list_hosted_zones_by_name
    v4_resp,         \* this cycle's response to the GET bound to 0.0.0.0
    v6_resp,         \* this cycle's response to the GET bound to ::
    calls,           \* the network calls this cycle has made, in order
    submitted,       \* the change request this cycle sent, or None
    cycle_result,    \* what update_hosted_zone returned, or None
    cycles,          \* calls of update_hosted_zone begun so far
    prev,            \* the previous cycle's inputs and request, or None
    started_at,      \* the clock when the latest cycle was begun
    log,             \* the latest log line that formats the zone: <<line>>, or <<>>
    result,          \* what daemon_update_zone returned, or None
    exit_code        \* the process's exit status <<code>>, or <<>>

vars == << zone, twin, daemon, pc, shutdown_token, ctrl_c_task, cancelled_at, now,
           interval, hosted_zone, record_changes, ipv4, ipv6, list_resp,
           v4_resp, v6_resp, calls, submitted, cycle_result, cycles, prev, started_at,
           log, result, exit_code >>

sched_vars == << zone, twin, daemon, shutdown_token, ctrl_c_task, cancelled_at, now,
                 interval, cycles, prev, started_at, result, exit_code >>

cycle_locals == << hosted_zone, record_changes, ipv4, ipv6, list_resp,
                   v4_resp, v6_resp, calls, submitted, cycle_result >>

InCycle == { "list_hosted_zones", "get_ipv4", "get_ipv6", "change_record_sets" }

Errors == { "ErrLookup", "ErrNoZone", "ErrDiscovery", "ErrUpsert" }

\* The state main leaves when it calls daemon_update_zone.
Start ==
    /\ pc = "entry"
    /\ shutdown_token = FALSE
    /\ ctrl_c_task = "waiting"
    /\ cancelled_at = NotCancelled
    /\ now = 0
    /\ interval = NoInterval
    /\ hosted_zone = None
    /\ record_changes = <<>>
    /\ ipv4 = NoAddr
    /\ ipv6 = NoAddr
    /\ list_resp = NoListResponse
    /\ v4_resp = NoHttpResponse
    /\ v6_resp = NoHttpResponse
    /\ calls = <<>>
    /\ submitted = NoRequest
    /\ cycle_result = None
    /\ cycles = 0
    /\ prev = NoCycle
    /\ started_at = 0
    /\ log = <<>>
    /\ result = None
    /\ exit_code = NoExit

Init ==
    /\ zone \in HostedZoneConfig
    /\ twin = zone
    /\ daemon \in BOOLEAN
    /\ Start

\* ------------------------------------------------------ update_hosted_zone

\* What a cycle leaves for the comparison with the next one.
CycleSummary ==
    [first |-> hosted_zone, ipv4 |-> ipv4, ipv6 |-> ipv6, submitted |-> submitted,
     result |-> cycle_result]

\* Mutant of FreshRecordChanges: the list outlives the cycle.
FreshRecordChanges_Kept(old) == old

\* let mut record_changes: Vec<Change> = Vec::with_capacity(2);
FreshRecordChanges(old) == <<>>

\* The call update_hosted_zone(zone.clone()): fresh locals, first await.
BeginCycle ==
    /\ pc' = "list_hosted_zones"
    /\ hosted_zone' = None
    /\ record_changes' = FreshRecordChanges(record_changes)
    /\ ipv4' = NoAddr
    /\ ipv6' = NoAddr
    /\ list_resp' = NoListResponse
    /\ v4_resp' = NoHttpResponse
    /\ v6_resp' = NoHttpResponse
    /\ calls' = <<>>
    /\ submitted' = NoRequest
    /\ cycle_result' = None
    /\ cycles' = cycles + 1
    /\ prev' = IF cycles = 0 THEN NoCycle ELSE CycleSummary
    /\ started_at' = now
    /\ log' = << LogLine("Updating hosted zone", zone, None) >>

\* Mutant of StageAfterIpv6: the batch is submitted even when it is empty.
StageAfterIpv6_Always(rc) == "change_record_sets"

\* if !record_changes.is_empty() { ... }  Ok(())
StageAfterIpv6(rc) == IF rc # <<>> THEN "change_record_sets" ELSE "cycle_ret"

\* if zone.ipv6 { ... }
StageAfterIpv4(rc) == IF zone.ipv6 THEN "get_ipv6" ELSE StageAfterIpv6(rc)

\* if zone.ipv4 { ... }
StageAfterLookup(rc) == IF zone.ipv4 THEN "get_ipv4" ELSE StageAfterIpv4(rc)

\* Falling through to the end of the function returns Ok(()).
ResultAt(stage) == IF stage = "cycle_ret" THEN "Ok" ELSE None

\* info!("Finished updating hosted zone {:?}", zone) before Ok(()).
LogAt(stage) ==
    IF stage = "cycle_ret"
    THEN << LogLine("Finished updating hosted zone", zone, None) >>
    ELSE log


\* Mutant of Fail: the failed step is tried again.
Fail_Retry(e) ==
    /\ pc' = pc
    /\ cycle_result' = None
    /\ UNCHANGED log

\* The `?` operator: return the error to the caller.
Fail(e) ==
    /\ pc' = "cycle_ret"
    /\ cycle_result' = e
    /\ UNCHANGED log


\* Mutant of ListHostedZones: the id found by the cycle before is used again
\* without a lookup.
ListHostedZones_Cached(resp) ==
    /\ pc = "list_hosted_zones"
    /\ IF cycles >= 2 /\ prev.first # None
         THEN /\ hosted_zone' = prev.first
              /\ UNCHANGED << list_resp, calls >>
              /\ pc' = StageAfterLookup(record_changes)
              /\ cycle_result' = ResultAt(pc')
              /\ log' = LogAt(pc')
         ELSE /\ list_resp' = resp
              /\ calls' = Append(calls, "list_hosted_zones_by_name")
              /\ IF resp.kind = "err"
                   THEN Fail("ErrLookup") /\ UNCHANGED hosted_zone
                   ELSE IF FindFirst(resp.hosted_zones) = None
                     THEN Fail("ErrNoZone") /\ UNCHANGED hosted_zone
                     ELSE /\ hosted_zone' = FindFirst(resp.hosted_zones)
                          /\ pc' = StageAfterLookup(record_changes)
                          /\ cycle_result' = ResultAt(pc')
                          /\ log' = LogAt(pc')
    /\ UNCHANGED << record_changes, ipv4, ipv6, v4_resp, v6_resp, submitted >>
    /\ UNCHANGED sched_vars

\* client.list_hosted_zones_by_name().dns_name(..).send().await?  and
\* .find(|_| true).ok_or(anyhow!("No hosted zone found."))?.id
ListHostedZones(resp) ==
    /\ pc = "list_hosted_zones"
    /\ list_resp' = resp
    /\ calls' = Append(calls, "list_hosted_zones_by_name")
    /\ IF resp.kind = "err"
         THEN Fail("ErrLookup") /\ UNCHANGED hosted_zone
         ELSE IF FindFirst(resp.hosted_zones) = None
           THEN Fail("ErrNoZone") /\ UNCHANGED hosted_zone
           ELSE /\ hosted_zone' = FindFirst(resp.hosted_zones)
                /\ pc' = StageAfterLookup(record_changes)
                /\ cycle_result' = ResultAt(pc')
                /\ log' = LogAt(pc')
    /\ UNCHANGED << record_changes, ipv4, ipv6, v4_resp, v6_resp, submitted >>
    /\ UNCHANGED sched_vars

\* The `if zone.ipv4` block: GET over a socket bound to 0.0.0.0, parse the
\* body as an IpAddr, push the A upsert.
GetIpv4(resp) ==
    /\ pc = "get_ipv4"
    /\ v4_resp' = resp
    /\ calls' = Append(calls, "get_ipv4")
    /\ IF resp.kind # "ok" \/ ~ParseIpAddr(resp.body).ok
         THEN Fail("ErrDiscovery") /\ UNCHANGED << ipv4, record_changes >>
         ELSE /\ ipv4' = ParseIpAddr(resp.body)
              /\ record_changes' = Append(record_changes, UpsertChange(zone, "A", ipv4'))
              /\ pc' = StageAfterIpv4(record_changes')
              /\ cycle_result' = ResultAt(pc')
              /\ log' = LogAt(pc')
    /\ UNCHANGED << hosted_zone, ipv6, list_resp, v6_resp, submitted >>
    /\ UNCHANGED sched_vars

\* Mutant of GetIpv6: a failed lookup skips the family instead of returning.
GetIpv6_SkipOnFailure(resp) ==
    /\ pc = "get_ipv6"
    /\ v6_resp' = resp
    /\ calls' = Append(calls, "get_ipv6")
    /\ IF resp.kind # "ok" \/ ~ParseIpAddr(resp.body).ok
         THEN UNCHANGED << ipv6, record_changes >>
         ELSE /\ ipv6' = ParseIpAddr(resp.body)
              /\ record_changes' = Append(record_changes, UpsertChange(zone, "AAAA", ipv6'))
    /\ pc' = StageAfterIpv6(record_changes')
    /\ cycle_result' = ResultAt(pc')
    /\ log' = LogAt(pc')
    /\ UNCHANGED << hosted_zone, ipv4, list_resp, v4_resp, submitted >>
    /\ UNCHANGED sched_vars

\* The `if zone.ipv6` block: GET over a socket bound to ::, parse the body as
\* an IpAddr, push the AAAA upsert.
GetIpv6(resp) ==
    /\ pc = "get_ipv6"
    /\ v6_resp' = resp
    /\ calls' = Append(calls, "get_ipv6")
    /\ IF resp.kind # "ok" \/ ~ParseIpAddr(resp.body).ok
         THEN Fail("ErrDiscovery") /\ UNCHANGED << ipv6, record_changes >>
         ELSE /\ ipv6' = ParseIpAddr(resp.body)
              /\ record_changes' = Append(record_changes, UpsertChange(zone, "AAAA", ipv6'))
              /\ pc' = StageAfterIpv6(record_changes')
              /\ cycle_result' = ResultAt(pc')
              /\ log' = LogAt(pc')
    /\ UNCHANGED << hosted_zone, ipv4, list_resp, v4_resp, submitted >>
    /\ UNCHANGED sched_vars

\* Mutant of ChangeResourceRecordSets: the cycle is raced against the token,
\* and a cancelled token drops it before the request is sent.
ChangeResourceRecordSets_Cancellable(resp) ==
    /\ pc = "change_record_sets"
    /\ IF shutdown_token
         THEN /\ pc' = "done"
              /\ result' = "Ok"
              /\ UNCHANGED << submitted, calls, cycle_result, log >>
         ELSE /\ submitted' = [hosted_zone_id |-> hosted_zone, changes |-> record_changes]
              /\ calls' = Append(calls, "change_resource_record_sets")
              /\ pc' = "cycle_ret"
              /\ cycle_result' = IF resp = "ok" THEN "Ok" ELSE "ErrUpsert"
              /\ log' = IF resp = "ok" THEN LogAt("cycle_ret") ELSE log
              /\ UNCHANGED result
    /\ UNCHANGED << hosted_zone, record_changes, ipv4, ipv6, list_resp, v4_resp, v6_resp >>
    /\ UNCHANGED << zone, twin, daemon, shutdown_token, ctrl_c_task, cancelled_at, now,
                    interval, cycles, prev, started_at, exit_code >>

\* client.change_resource_record_sets().hosted_zone_id(hosted_zone)
\*     .change_batch(..set_changes(Some(record_changes))..).send().await?
ChangeResourceRecordSets(resp) ==
    /\ pc = "change_record_sets"
    /\ submitted' = [hosted_zone_id |-> hosted_zone, changes |-> record_changes]
    /\ calls' = Append(calls, "change_resource_record_sets")
    /\ pc' = "cycle_ret"
    /\ cycle_result' = IF resp = "ok" THEN "Ok" ELSE "ErrUpsert"
    /\ log' = IF resp = "ok" THEN LogAt("cycle_ret") ELSE log
    /\ UNCHANGED << hosted_zone, record_changes, ipv4, ipv6, list_resp, v4_resp, v6_resp >>
    /\ UNCHANGED sched_vars

\* ------------------------------------------------------ daemon_update_zone


\* Mutant of EnterOneShot: a cancelled token makes the one-shot call return at
\* once.
EnterOneShot_ChecksToken ==
    /\ pc = "entry"
    /\ ~daemon
    /\ IF shutdown_token
         THEN /\ pc' = "done"
              /\ result' = "Ok"
              /\ UNCHANGED << cycle_locals, log, cycles, prev, started_at >>
         ELSE BeginCycle /\ UNCHANGED result
    /\ UNCHANGED << zone, twin, daemon, shutdown_token, ctrl_c_task, cancelled_at,
                    now, interval, exit_code >>

\* if !daemon { if let Err(e) = update_hosted_zone(zone.clone()).await ...
EnterOneShot ==
    /\ pc = "entry"
    /\ ~daemon
    /\ BeginCycle
    /\ UNCHANGED << zone, twin, daemon, shutdown_token, ctrl_c_task, cancelled_at,
                    now, interval, result, exit_code >>


\* Mutant of EnterDaemon: a zero period is accepted.
EnterDaemon_ZeroAccepted ==
    /\ pc = "entry"
    /\ daemon
    /\ interval' = [deadline |-> now, period |-> Period(zone)]
    /\ pc' = "select"
    /\ UNCHANGED << zone, twin, daemon, shutdown_token, ctrl_c_task, cancelled_at,
                    now, cycles, prev, started_at, result, exit_code >>
    /\ UNCHANGED << cycle_locals, log >>

\* time::interval(period): panics when the period is zero; its first tick
\* completes immediately.
EnterDaemon ==
    /\ pc = "entry"
    /\ daemon
    /\ IF Period(zone) = 0
         THEN pc' = "panicked" /\ UNCHANGED interval
         ELSE /\ interval' = [deadline |-> now, period |-> Period(zone)]
              /\ pc' = "select"
    /\ UNCHANGED << zone, twin, daemon, shutdown_token, ctrl_c_task, cancelled_at,
                    now, cycles, prev, started_at, result, exit_code >>
    /\ UNCHANGED << cycle_locals, log >>


\* Mutant of TickReady: the tick completes whether or not its deadline is reached.
TickReady_NotDue == interval # NoInterval /\ now >= 0

\* The branch `_ = interval.tick() => {}` is ready.
TickReady == interval # NoInterval /\ now >= interval.deadline

\* The branch `_ = shutdown_token.cancelled() => ...` is ready.
CancelledReady == shutdown_token



\* Mutant of SelectTick: the loop goes on after it has returned.
SelectTick_AfterReturn ==
    /\ pc \in { "select", "done" }
    /\ TickReady
    /\ interval' = [interval EXCEPT !.deadline = @ + interval.period]
    /\ BeginCycle
    /\ UNCHANGED << zone, twin, daemon, shutdown_token, ctrl_c_task, cancelled_at,
                    now, result, exit_code >>

\* Mutant of SelectTick: every due tick starts a cycle, whether or not the one
\* before has returned.
SelectTick_Overlapping ==
    /\ pc \in { "select" } \cup InCycle
    /\ TickReady
    /\ interval' = [interval EXCEPT !.deadline = @ + interval.period]
    /\ BeginCycle
    /\ UNCHANGED << zone, twin, daemon, shutdown_token, ctrl_c_task, cancelled_at,
                    now, result, exit_code >>

\* select! takes the tick branch (it polls its branches in a random order, so
\* either ready branch may win); the tick moves the deadline one period on,
\* and the loop body calls update_hosted_zone.
SelectTick ==
    /\ pc = "select"
    /\ TickReady
    /\ interval' = [interval EXCEPT !.deadline = @ + interval.period]
    /\ BeginCycle
    /\ UNCHANGED << zone, twin, daemon, shutdown_token, ctrl_c_task, cancelled_at,
                    now, result, exit_code >>

\* select! takes the cancelled branch: break Ok(()).
SelectCancelled ==
    /\ pc = "select"
    /\ CancelledReady
    /\ pc' = "done"
    /\ result' = "Ok"
    /\ UNCHANGED << zone, twin, daemon, shutdown_token, ctrl_c_task, cancelled_at,
                    now, interval, cycles, prev, started_at, exit_code >>
    /\ UNCHANGED << cycle_locals, log >>

\* error!("Error while updating zone {:?}: {:?}", zone, e)
LogOutcome(r) ==
    IF r \in Errors THEN << LogLine("Error while updating zone", zone, r) >> ELSE log

\* Mutant of OneShotResult: the error is logged and swallowed.
OneShotResult_Swallowed(r) == "Ok"

\* One-shot: Err(e) => return Err(e); otherwise return Ok(()).
OneShotResult(r) == r

OneShotReturn ==
    /\ pc = "cycle_ret"
    /\ ~daemon
    /\ result' = OneShotResult(cycle_result)
    /\ log' = LogOutcome(cycle_result)
    /\ pc' = "done"
    /\ UNCHANGED << zone, twin, daemon, shutdown_token, ctrl_c_task, cancelled_at,
                    now, interval, cycles, prev, started_at, exit_code >>
    /\ UNCHANGED cycle_locals

\* Mutant of StageAfterCycle: a failed cycle ends the loop.
StageAfterCycle_StopOnError(r) == IF r = "Ok" THEN "select" ELSE "done"

\* Daemon: the outcome is logged and the loop goes round to the select.
StageAfterCycle(r) == "select"

DaemonLoop ==
    /\ pc = "cycle_ret"
    /\ daemon
    /\ pc' = StageAfterCycle(cycle_result)
    /\ log' = LogOutcome(cycle_result)
    /\ UNCHANGED << zone, twin, daemon, shutdown_token, ctrl_c_task, cancelled_at,
                    now, interval, cycles, prev, started_at, result, exit_code >>
    /\ UNCHANGED cycle_locals

\* ------------------------------------------------------------------- main

\* main returns daemon_update_zone's result: Ok exits 0, Err exits 1; a panic
\* of the main task exits 101.
ExitCode(p, r) ==
    IF p = "panicked" THEN 101 ELSE IF r = "Ok" THEN 0 ELSE 1

MainReturn ==
    /\ pc \in { "done", "panicked" }
    /\ exit_code = NoExit
    /\ exit_code' = << ExitCode(pc, result) >>
    /\ UNCHANGED << zone, twin, daemon, pc, shutdown_token, ctrl_c_task, cancelled_at,
                    now, interval, cycles, prev, started_at, result >>
    /\ UNCHANGED << cycle_locals, log >>

\* The spawned task: ctrl_c().await, then cloned_token.cancel().
CtrlC ==
    /\ ctrl_c_task = "waiting"
    /\ exit_code = NoExit
    /\ ctrl_c_task' = "done"
    /\ shutdown_token' = TRUE
    /\ cancelled_at' = [pc |-> pc, cycles |-> cycles]
    /\ UNCHANGED << zone, twin, daemon, pc, now, interval, cycles, prev, started_at, result, exit_code >>
    /\ UNCHANGED << cycle_locals, log >>

\* A minute passes on the clock the interval reads.
Elapse ==
    /\ interval # NoInterval
    /\ exit_code = NoExit
    /\ now < SecondsPerMinute * MaxMinutes
    /\ now' = now + SecondsPerMinute
    /\ UNCHANGED << zone, twin, daemon, pc, shutdown_token, ctrl_c_task, cancelled_at,
                    interval, cycles, prev, started_at, result, exit_code >>
    /\ UNCHANGED << cycle_locals, log >>

Next ==
    \/ EnterOneShot
    \/ EnterDaemon
    \/ SelectTick
    \/ SelectCancelled
    \/ \E resp \in ListResponses : ListHostedZones(resp)
    \/ \E resp \in HttpResponses : GetIpv4(resp)
    \/ \E resp \in HttpResponses : GetIpv6(resp)
    \/ \E resp \in ChangeResponses : ChangeResourceRecordSets(resp)
    \/ OneShotReturn
    \/ DaemonLoop
    \/ MainReturn
    \/ CtrlC
    \/ Elapse

Spec == Init /\ [][Next]_vars

\* The configurations that differ from z in access_key_id, secret_access_key or
\* session_token at most.
Twins(z) ==
    { [z EXCEPT !.aws_credentials = c] :
        c \in { d \in AwsCredentials :
                   d.expires_after = z.aws_credentials.expires_after } }

\* The same program with both families enabled, credentials with or without an
\* expiry (as a deserialized HostedZoneConfig may carry them), and beside it a
\* twin configuration whose secrets range over AwsCredentials.
CredInit ==
    /\ zone \in { z \in [update_frequency_minutes : { MaxFrequency },
                         zone_name       : { <<"e", "x", ".", "c", "o", "m">> },
                         record_name     : { <<"h", "o", "m", "e">> },
                         ipv4            : { TRUE },
                         ipv6            : { TRUE },
                         region          : { "us-east-1" },
                         aws_credentials : AwsCredentials,
                         ttl_seconds     : { 300 }] :
                      /\ z.aws_credentials.access_key_id = "AKIA1"
                      /\ z.aws_credentials.secret_access_key = "secret1"
                      /\ z.aws_credentials.session_token = "token1" }
    /\ twin \in Twins(zone)
    /\ daemon \in BOOLEAN
    /\ Start

CredSpec == CredInit /\ [][Next]_vars

\* ------------------------------------------------------------- the claims

Range(seq) == { seq[i] : i \in 1..Len(seq) }

Count(seq, x) == Cardinality({ i \in 1..Len(seq) : seq[i] = x })

\* A family's address discovery failed: the request or the status failed, or
\* the body is no address.
DiscoveryFailed(resp) ==
    \/ resp.kind \in { "send_err", "status_err" }
    \/ resp.kind = "ok" /\ ~ParseIpAddr(resp.body).ok

\* C1: in daemon mode no call of update_hosted_zone begins once the shutdown
\* token is cancelled: the number of cycles begun stays what it was at the
\* cancellation.
C1_NoCycleAfterCancellation ==
    (daemon /\ shutdown_token) => cycles = cancelled_at.cycles

\* C2: a cycle in which an enabled family's address discovery failed never
\* calls change_resource_record_sets and returns an error; no batch holding
\* only the other family's record is submitted.
C2_NoPartialBatch ==
    (DiscoveryFailed(v4_resp) \/ DiscoveryFailed(v6_resp)) =>
        /\ submitted = NoRequest
        /\ "change_resource_record_sets" \notin Range(calls)
        /\ pc \notin InCycle
        /\ cycle_result = "ErrDiscovery"

\* C2's case: both families enabled, IPv4 discovered, IPv6 failed.
C2_Witness ==
    /\ zone.ipv4 /\ zone.ipv6
    /\ v4_resp.kind = "ok" /\ ipv4.ok
    /\ Len(record_changes) = 1
    /\ DiscoveryFailed(v6_resp)
    /\ pc = "cycle_ret"

\* C3: with ipv4 = false and ipv6 = false a cycle keeps its change list empty,
\* makes no address-discovery request and never calls
\* change_resource_record_sets; when the lookup found a zone it returns Ok.
C3_BothDisabledIsNoOp ==
    (~zone.ipv4 /\ ~zone.ipv6) =>
        /\ record_changes = <<>>
        /\ v4_resp = NoHttpResponse /\ v6_resp = NoHttpResponse
        /\ Range(calls) \subseteq { "list_hosted_zones_by_name" }
        /\ submitted = NoRequest
        /\ pc # "change_record_sets"
        /\ (list_resp.kind = "ok" /\ list_resp.hosted_zones # <<>>)
              => cycle_result = "Ok"

\* C3's case: both families disabled and the cycle has returned Ok.
C3_Witness ==
    /\ ~zone.ipv4 /\ ~zone.ipv6
    /\ pc = "cycle_ret"
    /\ list_resp.hosted_zones # <<>>
    /\ cycle_result = "Ok"

\* C4: one-shot mode runs exactly one cycle and terminates; daemon_update_zone
\* returns Ok exactly when the cycle returned Ok and the cycle's error when it
\* failed, and the process exits 0 or 1 accordingly.
C4_OneShotPropagates ==
    ~daemon =>
        /\ cycles <= 1
        /\ pc \notin { "select", "panicked" }
        /\ (pc = "done" =>
              /\ cycles = 1
              /\ cycle_result \in { "Ok" } \cup Errors
              /\ result = cycle_result)
        /\ (pc # "done" => result = None /\ exit_code = NoExit)
        /\ (exit_code # NoExit =>
              exit_code = << IF cycle_result = "Ok" THEN 0 ELSE 1 >>)

\* C4's case: the one cycle failed and the process has exited 1.
C4_Witness ==
    /\ ~daemon
    /\ cycle_result = "ErrUpsert"
    /\ result = "ErrUpsert"
    /\ exit_code = << 1 >>

\* C5: in daemon mode every returned cycle, whatever its outcome, leads back to
\* the select on the unchanged interval; from the select an uncancelled
\* scheduler only goes on to a further cycle; the scheduler never returns an
\* error, and returns Ok only with the token cancelled.
C5_OutcomeDoesNotChangeScheduler ==
    /\ [](daemon => result \in { None, "Ok" })
    /\ []((daemon /\ pc = "done") => (result = "Ok" /\ shutdown_token))
    /\ [][(daemon /\ pc = "cycle_ret" /\ pc' # pc)
            => (pc' = "select" /\ interval' = interval /\ result' = None)]_vars
    /\ [][(daemon /\ pc = "select" /\ ~shutdown_token /\ pc' # pc)
            => (pc' = "list_hosted_zones" /\ cycles' = cycles + 1)]_vars

\* C5's case: a further cycle is running after a failed one.
C5_Witness ==
    /\ daemon
    /\ prev.result \in Errors
    /\ pc \in InCycle
    /\ cycles >= 2

\* The calls a cycle makes when no step fails.
FullCycleCalls ==
    << "list_hosted_zones_by_name" >>
    \o (IF zone.ipv4 THEN << "get_ipv4" >> ELSE <<>>)
    \o (IF zone.ipv6 THEN << "get_ipv6" >> ELSE <<>>)
    \o (IF zone.ipv4 \/ zone.ipv6 THEN << "change_resource_record_sets" >> ELSE <<>>)

\* C6: a cycle running when the token is cancelled is not interrupted: it goes
\* on step by step to its return, a cycle that returned Ok made every call and
\* sent its batch, and the scheduler returns only from the select.
C6_RunningCycleNotInterrupted ==
    /\ [][(pc \in InCycle /\ pc' # pc) => pc' \in InCycle \cup { "cycle_ret" }]_vars
    /\ [][(daemon /\ pc' = "done" /\ pc # "done") => pc = "select"]_vars
    /\ []((pc = "cycle_ret" /\ cycle_result = "Ok") =>
            /\ calls = FullCycleCalls
            /\ (record_changes # <<>> => submitted.changes = record_changes))
    /\ []((pc = "cycle_ret" /\ cycle_result = "ErrUpsert") =>
            submitted.changes = record_changes)

\* C6's case: the token was cancelled during the first GET of this cycle, and
\* the cycle went on to send its batch and return Ok.
C6_Witness ==
    /\ daemon
    /\ shutdown_token
    /\ cancelled_at = [pc |-> "get_ipv4", cycles |-> cycles]
    /\ pc = "cycle_ret"
    /\ cycle_result = "Ok"
    /\ submitted.changes = record_changes
    /\ Len(record_changes) = 2

\* The upsert C7 expects for a family: the record named record_name "."
\* zone_name, with the configured TTL and the address the response carried.
C7_Upsert(rrtype, resp) ==
    [action |-> "UPSERT",
     name   |-> zone.record_name \o << "." >> \o zone.zone_name,
     type   |-> rrtype,
     ttl    |-> zone.ttl_seconds,
     value  |-> ParseIpAddr(resp.body).text]

C7_Batch ==
    (IF zone.ipv4 THEN << C7_Upsert("A", v4_resp) >> ELSE <<>>)
    \o (IF zone.ipv6 THEN << C7_Upsert("AAAA", v6_resp) >> ELSE <<>>)

\* C7: a successful cycle submits, in one request to the zone id its own lookup
\* returned first, exactly one upsert per enabled family, A before AAAA, each
\* named record_name "." zone_name with ttl_seconds and the address discovered
\* in this cycle.
C7_SuccessfulBatch ==
    cycle_result = "Ok" =>
        IF C7_Batch = <<>>
        THEN submitted = NoRequest
        ELSE /\ submitted = [hosted_zone_id |-> Head(list_resp.hosted_zones),
                             changes |-> C7_Batch]
             /\ Count(calls, "change_resource_record_sets") = 1

\* C7's case: both families, an IPv6 body that is not in canonical form, and a
\* lookup that returned two zones.
C7_Witness ==
    /\ cycle_result = "Ok"
    /\ zone.ipv4 /\ zone.ipv6
    /\ v4_resp.body = "203.0.113.7"
    /\ v6_resp.body = "2001:0db8:0:0:0:0:0:1"
    /\ list_resp.hosted_zones = << "Z456", "Z123" >>
    /\ submitted.hosted_zone_id = "Z456"
    /\ Len(submitted.changes) = 2

\* C8: an A change is only built from an IPv4 address and an AAAA change only
\* from an IPv6 address; a body carrying an address of the other family fails
\* the cycle and yields no record change.
C8_OnlyRequestedFamily ==
    /\ (ipv4.ok => ipv4.family = "V4")
    /\ (ipv6.ok => ipv6.family = "V6")
    /\ (v4_resp.kind = "ok" /\ ParseIpAddr(v4_resp.body).family # "V4")
          => (cycle_result = "ErrDiscovery" /\ record_changes = <<>>)
    /\ (v6_resp.kind = "ok" /\ ParseIpAddr(v6_resp.body).family # "V6")
          => cycle_result = "ErrDiscovery"

\* C9: two cycles in succession with the same lookup result and the same
\* discovered addresses send identical requests, and a cycle starts with
\* nothing left over from the one before.
C9_SameInputsSameBatch ==
    /\ (pc = "list_hosted_zones" => (record_changes = <<>> /\ hosted_zone = None))
    /\ (/\ submitted # NoRequest
        /\ prev.submitted # NoRequest
        /\ prev.first = hosted_zone
        /\ prev.ipv4 = ipv4
        /\ prev.ipv6 = ipv6) => submitted = prev.submitted

\* C9's case: the second of two cycles has sent the same two-record batch as
\* the first.
C9_Witness ==
    /\ cycles >= 2
    /\ submitted # NoRequest
    /\ prev.first = hosted_zone /\ prev.ipv4 = ipv4 /\ prev.ipv6 = ipv6
    /\ prev.submitted = submitted
    /\ Len(submitted.changes) = 2

\* C11: no log line that formats the zone depends on access_key_id,
\* secret_access_key or session_token: the Debug and Display renderings of the
\* credentials are those of any twin differing only in these fields, they show
\* expires_after, and every such line logged is the line the twin would log.
C11_LogsIndependentOfSecrets ==
    /\ DebugAwsCredentials(zone.aws_credentials)
          = DebugAwsCredentials(twin.aws_credentials)
    /\ DisplayAwsCredentials(zone.aws_credentials)
          = DisplayAwsCredentials(twin.aws_credentials)
    /\ DebugAwsCredentials(zone.aws_credentials).expires_after
          = zone.aws_credentials.expires_after
    /\ \A i \in 1..Len(log) :
          /\ log[i] = LogLine(log[i].text, twin, log[i].err)
          /\ log[i].zone.aws_credentials.access_key_id
                \notin { zone.aws_credentials.access_key_id }
          /\ log[i].zone.aws_credentials.secret_access_key
                \notin { zone.aws_credentials.secret_access_key }
          /\ log[i].zone.aws_credentials.session_token
                \notin { zone.aws_credentials.session_token }

\* C11's case: the error line of a failed cycle has been logged for a zone
\* whose twin differs in all three secret fields.
C11_Witness ==
    /\ zone.aws_credentials.access_key_id # twin.aws_credentials.access_key_id
    /\ zone.aws_credentials.secret_access_key # twin.aws_credentials.secret_access_key
    /\ zone.aws_credentials.session_token # twin.aws_credentials.session_token
    /\ zone.aws_credentials.expires_after # None
    /\ Len(log) = 1
    /\ log[1].text = "Error while updating zone"

\* C12: the cycles of the zone are strictly sequential: a cycle in progress has
\* not returned, and a call of update_hosted_zone begins only from the entry or
\* the select, after the call before it has returned, however many ticks are due.
C12_CyclesSequential ==
    /\ [](pc \in InCycle => cycle_result = None)
    /\ [](pc \in { "cycle_ret", "select", "done" } => (cycles = 0 \/ cycle_result # None))
    /\ [][cycles' # cycles =>
            /\ cycles' = cycles + 1
            /\ pc \in { "entry", "select" }
            /\ pc' = "list_hosted_zones"
            /\ (cycles >= 1 => cycle_result # None)]_vars

\* C12's case: the first cycle outlasted the period, so that when the second
\* begins a further tick is already due.
C12_Witness ==
    /\ daemon
    /\ cycles = 2
    /\ pc = "list_hosted_zones"
    /\ prev.result # None
    /\ now >= interval.deadline

\* The order of a cycle's calls: lookup, IPv4 discovery, IPv6 discovery, upsert.
CallOrder ==
    << "list_hosted_zones_by_name" >>
    \o (IF zone.ipv4 THEN << "get_ipv4" >> ELSE <<>>)
    \o (IF zone.ipv6 THEN << "get_ipv6" >> ELSE <<>>)
    \o << "change_resource_record_sets" >>

IsPrefix(a, b) ==
    /\ Len(a) <= Len(b)
    /\ \A i \in 1..Len(a) : a[i] = b[i]

\* C13: a cycle makes its calls in the order lookup, IPv4 discovery, IPv6
\* discovery, upsert, each at most once; a failed or empty lookup is followed by
\* no discovery and no upsert, and a failed IPv4 discovery by no IPv6 discovery
\* and no upsert.
C13_StepsInOrderFirstFailureAborts ==
    /\ IsPrefix(calls, CallOrder)
    /\ \A c \in Range(calls) : Count(calls, c) = 1
    /\ (list_resp.kind = "err" \/ (list_resp.kind = "ok" /\ list_resp.hosted_zones = <<>>))
          => /\ calls = << "list_hosted_zones_by_name" >>
             /\ v4_resp = NoHttpResponse /\ v6_resp = NoHttpResponse
             /\ submitted = NoRequest
             /\ pc \notin InCycle
             /\ cycle_result = (IF list_resp.kind = "err" THEN "ErrLookup" ELSE "ErrNoZone")
    /\ DiscoveryFailed(v4_resp)
          => /\ calls = << "list_hosted_zones_by_name", "get_ipv4" >>
             /\ v6_resp = NoHttpResponse
             /\ submitted = NoRequest
             /\ pc \notin InCycle
    /\ DiscoveryFailed(v6_resp)
          => /\ Len(calls) = (IF zone.ipv4 THEN 3 ELSE 2)
             /\ calls[Len(calls)] = "get_ipv6"
             /\ pc \notin InCycle

\* C13's case: both families enabled and the IPv4 discovery failed, so the
\* cycle returned after two calls.
C13_Witness ==
    /\ zone.ipv4 /\ zone.ipv6
    /\ DiscoveryFailed(v4_resp)
    /\ pc = "cycle_ret"
    /\ cycle_result = "ErrDiscovery"
    /\ calls = << "list_hosted_zones_by_name", "get_ipv4" >>

\* C14: in daemon mode the number of cycles run after the cancellation is
\* bounded: once the shutdown token is cancelled at most one more cycle is
\* begun before the scheduler returns.
C14_CyclesAfterCancellationBounded ==
    (daemon /\ shutdown_token) => cycles - cancelled_at.cycles <= 1

\* C15 as stated: in daemon mode every cycle starts at least one full period
\* after the start of the cycle before it, and the first cycle at least one
\* full period after the scheduler started (time 0).
C15_FullPeriodBeforeEveryCycle ==
    [][(daemon /\ cycles' = cycles + 1) =>
          now - (IF cycles = 0 THEN 0 ELSE started_at) >= Period(zone)]_vars

\* C15, amended: the interval's ticks are due at 0, 1, 2, ... periods after the
\* scheduler started, each cycle consumes one tick and starts no earlier than
\* that tick is due; so the first cycle may start at once, and cycle k starts
\* at least k - 1 periods after the scheduler started.
C15_CycleStartsWhenItsTickIsDue ==
    (daemon /\ interval # NoInterval) =>
        /\ interval.period = SecondsPerMinute * zone.update_frequency_minutes
        /\ interval.period > 0
        /\ interval.deadline = cycles * interval.period
        /\ cycles >= 1 => started_at >= (cycles - 1) * interval.period

\* C15's case: the second cycle has started, exactly one period after the
\* scheduler started, the first one having started at once.
C15_Witness ==
    /\ daemon /\ cycles = 2
    /\ pc \in InCycle
    /\ started_at = interval.period
    /\ now = started_at

\* C16: the hosted-zone id is resolved anew in every cycle: a cycle begins
\* with no id, the id it holds is the first zone of its own lookup, and every
\* upsert was preceded in its cycle by a list_hosted_zones_by_name call whose
\* first zone is the target of the upsert.
C16_ZoneIdResolvedEveryCycle ==
    /\ pc = "list_hosted_zones" => (hosted_zone = None /\ calls = <<>>)
    /\ hosted_zone # None =>
          /\ list_resp.kind = "ok"
          /\ hosted_zone = FindFirst(list_resp.hosted_zones)
    /\ submitted # NoRequest =>
          /\ Head(calls) = "list_hosted_zones_by_name"
          /\ list_resp.kind = "ok"
          /\ list_resp.hosted_zones # <<>>
          /\ submitted.hosted_zone_id = Head(list_resp.hosted_zones)

\* C16's case: a cycle that failed with no zone found is followed by a cycle
\* whose lookup returned a zone and whose upsert succeeded.
C16_Witness ==
    /\ cycles >= 2
    /\ prev.result = "ErrNoZone"
    /\ prev.first = None
    /\ cycle_result = "Ok"
    /\ submitted # NoRequest
    /\ submitted.hosted_zone_id = Head(list_resp.hosted_zones)

\* C17: once daemon_update_zone has returned it stays returned: no further
\* cycle is begun and no lookup, discovery or upsert is made, its result is
\* set exactly once (at the return), the exit code once, and a cancelled token
\* stays cancelled, with no effect on a scheduler that has returned.
C17_TerminatedIsAbsorbing ==
    /\ [](result # None <=> pc = "done")
    /\ [][pc = "done" =>
            /\ pc' = "done"
            /\ result' = result
            /\ cycles' = cycles
            /\ UNCHANGED << cycle_locals, log, interval >>]_vars
    /\ [][shutdown_token => (shutdown_token' /\ cancelled_at' = cancelled_at)]_vars
    /\ [][exit_code # NoExit => exit_code' = exit_code]_vars

\* C17's case: the daemon loop has returned on the cancellation, a tick is due,
\* and the process has not exited yet.
C17_Witness ==
    /\ daemon /\ pc = "done" /\ result = "Ok"
    /\ shutdown_token
    /\ cycles >= 1
    /\ TickReady
    /\ exit_code = NoExit

\* C18: in one-shot mode the token plays no part: there is no interval and no
\* select, update_hosted_zone is called exactly once whatever the token's
\* state, it is never cut short, and the value returned is that cycle's
\* outcome.
C18_OneShotIgnoresToken ==
    ~daemon =>
        /\ interval = NoInterval
        /\ pc \notin { "select", "panicked" }
        /\ pc # "entry" => cycles = 1
        /\ pc = "done" =>
              /\ cycle_result # None
              /\ Head(calls) = "list_hosted_zones_by_name"
              /\ result = cycle_result
              /\ (cycle_result = "Ok" /\ (zone.ipv4 \/ zone.ipv6)) => submitted # NoRequest

\* C18's case: the token was cancelled before the one-shot call, and the cycle
\* still ran to its upsert and returned Ok.
C18_Witness ==
    /\ ~daemon
    /\ shutdown_token /\ cancelled_at.pc = "entry"
    /\ pc = "done" /\ result = "Ok"
    /\ submitted # NoRequest

\* C19: a daemon-mode scheduler runs cycles only with a positive period: with
\* update_frequency_minutes = 0 constructing the interval panics, before any
\* cycle, lookup, discovery or upsert, and the process exits with the panic's
\* code.
C19_ZeroPeriodRejectedBeforeAnyCycle ==
    /\ (daemon /\ zone.update_frequency_minutes = 0) =>
          /\ pc \in { "entry", "panicked" }
          /\ interval = NoInterval
          /\ cycles = 0
          /\ calls = <<>>
          /\ list_resp = NoListResponse
          /\ submitted = NoRequest
          /\ result = None
          /\ exit_code \in { NoExit, << 101 >> }
    /\ (daemon /\ cycles >= 1) => interval.period > 0
    /\ pc = "panicked" => (daemon /\ zone.update_frequency_minutes = 0)

\* C19's case: the daemon was started with update_frequency_minutes = 0 and
\* the process has exited on the panic.
C19_Witness ==
    /\ daemon /\ zone.update_frequency_minutes = 0
    /\ pc = "panicked"
    /\ exit_code = << 101 >>

====
